---- MODULE Spec2Model ----
(***************************************************************************)
(* Model of src/c1101.py: the OOK decoding pipeline of the CC1101 edge     *)
(* capture program (run extraction, frame segmentation, threshold          *)
(* estimation, bit decoding, device identification / learning and the      *)
(* per-device repeat filter).                                              *)
(*                                                                         *)
(* Conventions.  Python sequences are TLA+ sequences; Python index i is    *)
(* TLA+ index i+1.  A run is the pair <<dur, lvl>>.  A bitstring is a      *)
(* sequence of the one-character strings "0" and "1".  A dict is the       *)
(* sequence of its <<key, value>> items in insertion order.                *)
(***************************************************************************)
EXTENDS Integers, Sequences, FiniteSets, TLC

VARIABLES times, levels, edge_idx, capturing, irq_armed, irq_pending,
          elapsed_ms, interrupted,
          DEVICE_SIGNATURES, last_frame_bits_per_device,
          pc, frames, fi, stdout, runs_dump, obs,
          arg, ret

vars == <<times, levels, edge_idx, capturing, irq_armed, irq_pending,
          elapsed_ms, interrupted,
          DEVICE_SIGNATURES, last_frame_bits_per_device,
          pc, frames, fi, stdout, runs_dump, obs, arg, ret>>

bufferVars == <<times, levels, edge_idx>>
irqVars == <<capturing, irq_armed, irq_pending>>
mainVars == <<elapsed_ms, interrupted>>
captureVars == <<times, levels, edge_idx, capturing, irq_armed, irq_pending,
                 elapsed_ms, interrupted>>
deviceVars == <<DEVICE_SIGNATURES, last_frame_bits_per_device>>
processVars == <<pc, frames, fi, stdout, runs_dump, obs>>
callVars == <<arg, ret>>

-----------------------------------------------------------------------------
(* Program constants *)

SAMPLE_MAX_EDGES == 4000
SYNC_GAP_US == 5000

\* Period of the MicroPython tick counter read by time.ticks_us() and
\* assumed by time.ticks_diff(): 2^30 on the 32-bit rp2 port.
TICKS_PERIOD == 2^30

SIGNATURE_LEN == 20

\* the estimates returned for an empty mark list
FALLBACK_SHORT_US == 300
FALLBACK_LONG_US == 1000

None == <<"None">>
ValueError == <<"ValueError">>

\* "1101000000000111"
KERUI_SIGNATURE ==
    <<"1","1","0","1","0","0","0","0","0","0","0","0","0","1","1","1">>

InitialSignatures == << <<"Kerui_Door", KERUI_SIGNATURE>> >>

-----------------------------------------------------------------------------
(* Python built-ins used by the program *)

RECURSIVE sum(_)
sum(s) == IF s = <<>> THEN 0 ELSE Head(s) + sum(Tail(s))

min(s) == CHOOSE m \in {s[i] : i \in DOMAIN s} : \A i \in DOMAIN s : m <= s[i]

max(s) == CHOOSE m \in {s[i] : i \in DOMAIN s} : \A i \in DOMAIN s : m >= s[i]

\* a // b for b > 0: floor division
floordiv(a, b) == a \div b

\* int(a / b) for b > 0: the quotient truncated towards zero
int_truediv(a, b) == IF a >= 0 THEN a \div b ELSE -((-a) \div b)

\* s.count(c)
count(s, c) == Cardinality({i \in DOMAIN s : s[i] = c})

\* sub in s, for sequences: sub occurs as a contiguous slice of s
contains(s, sub) ==
    \E k \in 0..(Len(s) - Len(sub)) : SubSeq(s, k + 1, k + Len(sub)) = sub

\* s[:n]
prefix(s, n) == SubSeq(s, 1, IF Len(s) < n THEN Len(s) ELSE n)

\* d.get(k, None) on a dict kept as a function from its keys
dict_get(d, k) == IF k \in DOMAIN d THEN d[k] ELSE None

\* one value shared by every key
dict_put_shared(d, k, v) == [x \in (DOMAIN d) \cup {k} |-> v]

\* d[k] = v on a dict kept as a function from its keys
dict_put(d, k, v) == [x \in (DOMAIN d) \cup {k} |-> IF x = k THEN v ELSE d[x]]

\* d[k] = v on an insertion-ordered dict: an existing key keeps its place
\* and takes the new value, a new key is appended
dict_setitem(d, k, v) ==
    IF \E i \in DOMAIN d : d[i][1] = k
    THEN [i \in DOMAIN d |-> IF d[i][1] = k THEN <<k, v>> ELSE d[i]]
    ELSE Append(d, <<k, v>>)

\* time.ticks_diff(end, start)
ticks_diff(end, start) ==
    ((end - start + TICKS_PERIOD \div 2) % TICKS_PERIOD) - TICKS_PERIOD \div 2

-----------------------------------------------------------------------------
(* Edge buffer.  times and levels hold the slots written so far; the slots *)
(* of the 4000-element arrays beyond them still hold their initial 0.      *)

TimesAt(i) == IF i + 1 <= Len(times) THEN times[i + 1] ELSE 0
LevelsAt(i) == IF i + 1 <= Len(levels) THEN levels[i + 1] ELSE 0

-----------------------------------------------------------------------------
(* Utilities *)

\* get_runs with the level of the edge that closes the run
run_at_closing_level(i) == <<ticks_diff(TimesAt(i), TimesAt(i - 1)), LevelsAt(i)>>

\* get_runs with prev_t never advanced past the first edge
run_at_first_stamp(i) == <<ticks_diff(TimesAt(i), TimesAt(0)), LevelsAt(i - 1)>>

\* The loop of lines 89-93: at pass i, prev_t and prev_level are the stamp
\* and the level of edge i-1, so run i-1 is the pair below.
run_at(i) == <<ticks_diff(TimesAt(i), TimesAt(i - 1)), LevelsAt(i - 1)>>

get_runs ==
    IF edge_idx < 2 THEN <<>>
    ELSE [i \in 1..(edge_idx - 1) |-> run_at(i)]

\* split_frames with a gap of exactly SYNC_GAP_US not taken as a boundary
split_frames_step_strict(st, run) ==
    LET frs == st[1]
        cur == st[2]
        dur == run[1]
        lvl == run[2]
    IN  IF lvl = 0 /\ dur > SYNC_GAP_US
        THEN IF cur # <<>> THEN <<Append(frs, cur), <<>>>> ELSE <<frs, cur>>
        ELSE <<frs, Append(cur, <<dur, lvl>>)>>

\* One pass of the loop of lines 99-103 on the loop state <<frames, cur>>.
split_frames_step(st, run) ==
    LET frs == st[1]
        cur == st[2]
        dur == run[1]
        lvl == run[2]
    IN  IF lvl = 0 /\ dur >= SYNC_GAP_US
        THEN IF cur # <<>> THEN <<Append(frs, cur), <<>>>> ELSE <<frs, cur>>
        ELSE <<frs, Append(cur, <<dur, lvl>>)>>

\* The passes lo..hi of the loop, in order.  The range is halved, and the
\* state after the first half is computed before the second half starts,
\* only to keep the evaluation shallow.
RECURSIVE split_frames_for(_, _, _, _)
split_frames_for(st, runs, lo, hi) ==
    IF lo > hi THEN st
    ELSE IF lo = hi THEN split_frames_step(st, runs[lo])
    ELSE LET mid == (lo + hi) \div 2
             half == split_frames_for(st, runs, lo, mid)
         IN  IF Len(half) = 2
             THEN split_frames_for(half, runs, mid + 1, hi)
             ELSE half

split_frames(runs) ==
    LET st == split_frames_for(<< <<>>, <<>> >>, runs, 1, Len(runs))
        frs == st[1]
        cur == st[2]
    IN  IF cur # <<>> THEN Append(frs, cur) ELSE frs

marks_from_runs(frame_runs) ==
    LET high == SelectSeq(frame_runs, LAMBDA r : r[2] = 1)
    IN  [i \in 1..Len(high) |-> high[i][1]]

\* estimate_short_long with the marks equal to the mean counted as short
estimate_short_long_le(marks) ==
    IF marks = <<>> THEN <<FALLBACK_SHORT_US, FALLBACK_LONG_US>>
    ELSE LET avg == floordiv(sum(marks), Len(marks))
             shorts == SelectSeq(marks, LAMBDA m : m <= avg)
             longs == SelectSeq(marks, LAMBDA m : m > avg)
             SHORT_US == IF shorts # <<>>
                         THEN int_truediv(sum(shorts), Len(shorts))
                         ELSE min(marks)
             LONG_US == IF longs # <<>>
                        THEN int_truediv(sum(longs), Len(longs))
                        ELSE max(marks)
             MID_US == floordiv(SHORT_US + LONG_US, 2)
         IN  <<SHORT_US, LONG_US, MID_US>>

estimate_short_long(marks) ==
    IF marks = <<>> THEN <<FALLBACK_SHORT_US, FALLBACK_LONG_US>>
    ELSE LET avg == floordiv(sum(marks), Len(marks))
             shorts == SelectSeq(marks, LAMBDA m : m < avg)
             longs == SelectSeq(marks, LAMBDA m : m >= avg)
             SHORT_US == IF shorts # <<>>
                         THEN int_truediv(sum(shorts), Len(shorts))
                         ELSE min(marks)
             LONG_US == IF longs # <<>>
                        THEN int_truediv(sum(longs), Len(longs))
                        ELSE max(marks)
             MID_US == floordiv(SHORT_US + LONG_US, 2)
         IN  <<SHORT_US, LONG_US, MID_US>>

\* the polarity test inverting on a tie as well
more_ones_or_tie(ones, zeros) == ones >= zeros

\* the bits are never turned over
more_ones_never(ones, zeros) == FALSE

\* the polarity test of marks_to_bits_auto
more_ones(ones, zeros) == ones > zeros

\* the symbol decoded from one mark
bit_of(m, MID_US) == IF m >= MID_US THEN "1" ELSE "0"

\* Unpacking estimate_short_long's result into three names raises
\* ValueError when it is not a 3-tuple.
marks_to_bits_auto(marks) ==
    LET est == estimate_short_long(marks)
    IN  IF Len(est) # 3 THEN ValueError
        ELSE LET MID_US == est[3]
                 bits == [i \in 1..Len(marks) |-> bit_of(marks[i], MID_US)]
                 ones == count(bits, "1")
                 zeros == count(bits, "0")
             IN  IF more_ones(ones, zeros)
                 THEN [i \in 1..Len(bits) |-> IF bits[i] = "1" THEN "0" ELSE "1"]
                 ELSE bits


HexDigits == <<"0","1","2","3","4","5","6","7","8","9","A","B","C","D","E","F">>

\* the bits read least significant first
RECURSIVE int_base2_lsb(_)
int_base2_lsb(byte) ==
    IF byte = <<>> THEN 0
    ELSE (IF Head(byte) = "1" THEN 1 ELSE 0) + 2 * int_base2_lsb(Tail(byte))

\* int(byte, 2): the bits read most significant first
RECURSIVE int_base2(_)
int_base2(byte) ==
    IF byte = <<>> THEN 0
    ELSE 2 * int_base2(SubSeq(byte, 1, Len(byte) - 1))
         + (IF byte[Len(byte)] = "1" THEN 1 ELSE 0)

\* "{:02X}".format(v) for 0 <= v < 256
format_02X(v) == <<HexDigits[(v \div 16) + 1], HexDigits[(v % 16) + 1]>>

RECURSIVE pad_to_byte(_)
pad_to_byte(padded) ==
    IF Len(padded) % 8 # 0 THEN pad_to_byte(Append(padded, "0")) ELSE padded

\* ' '.join(out): the characters of the hex bytes, one space between bytes
RECURSIVE join_space(_)
join_space(out) ==
    IF out = <<>> THEN <<>>
    ELSE IF Len(out) = 1 THEN out[1]
    ELSE out[1] \o <<" ">> \o join_space(Tail(out))

bits_to_hexstr(bits) ==
    LET padded == pad_to_byte(bits)
        out == [k \in 1..(Len(padded) \div 8) |->
                   format_02X(int_base2(SubSeq(padded, 8 * (k - 1) + 1, 8 * k)))]
    IN  join_space(out)

-----------------------------------------------------------------------------
(* Device recognition / learning *)

\* the name numbered by the size of the seeded registry
new_name_seed(n) == "Unknown_" \o ToString(Len(InitialSignatures))

\* "Unknown_{}".format(n)
new_name(n) == "Unknown_" \o ToString(n)

\* the whole payload kept as the signature
new_signature_whole(bits) == bits

\* bits[:20]
new_signature(bits) == prefix(bits, SIGNATURE_LEN)

\* the scan returning the last matching item instead of the first
match_scan_last(sigs, bits, i) ==
    LET hits == {j \in i..Len(sigs) : contains(bits, sigs[j][2])}
    IN  IF hits = {} THEN 0 ELSE CHOOSE j \in hits : \A h \in hits : h <= j

\* for name,sig in DEVICE_SIGNATURES.items(): if sig in bits: return name
\* The position of the item returned, 0 when the loop ends without a match.
RECURSIVE match_scan(_, _, _)
match_scan(sigs, bits, i) ==
    IF i > Len(sigs) THEN 0
    ELSE IF contains(bits, sigs[i][2]) THEN i
    ELSE match_scan(sigs, bits, i + 1)

\* identify_or_learn(bits) on the registry sigs: the name returned, the
\* registry afterwards and whether a device was learned
identify_or_learn(sigs, bits) ==
    LET m == match_scan(sigs, bits, 1)
    IN  IF m # 0
        THEN [name |-> sigs[m][1], signatures |-> sigs, learned |-> FALSE]
        ELSE LET name == new_name(Len(sigs))
             IN  [name |-> name,
                  signatures |-> dict_setitem(sigs, name, new_signature(bits)),
                  learned |-> TRUE]

\* any stored payload of the device taken as a repeat
is_repeat_seen(bits, last_bits) == last_bits # None

\* identity instead of equality: never true of a freshly decoded string
is_repeat_identity(bits, last_bits) == FALSE

\* bits==last_bits
is_repeat(bits, last_bits) == bits = last_bits


-----------------------------------------------------------------------------
(* Captured sessions the decoder is run on.  A session is what the capture *)
(* window left in the edge buffer: a number of transmitted frames, each a  *)
(* train of marks separated by short spaces and closed by a sync gap.      *)

MaxFrames == 3

SHORT_MARK == FALLBACK_SHORT_US
LONG_MARK == FALLBACK_LONG_US
SPACE_US == FALLBACK_SHORT_US
GAP_US == 2 * SYNC_GAP_US

\* tick of the first edge: the counter wraps during the first frame
StartTick == TICKS_PERIOD - 2000

\* the marks a transmitter sends for a payload
MarksOf(payload) ==
    [i \in 1..Len(payload) |-> IF payload[i] = "1" THEN LONG_MARK ELSE SHORT_MARK]

PayloadA == <<"0","0","1","0","1","0","1","1">>
PayloadB == <<"0","0","0","1">>
PayloadLong == <<"1">> \o [i \in 1..20 |-> "0"] \o <<"1">>

\* the mark trains of the frames a session is made of; the empty train is
\* a frame of noise without any high level run
FrameMarks ==
    << MarksOf(PayloadA),
       MarksOf(PayloadB),
       MarksOf(PayloadB \o PayloadA),
       MarksOf(PayloadA \o KERUI_SIGNATURE),
       MarksOf(PayloadLong),
       <<LONG_MARK, LONG_MARK, SHORT_MARK>>,
       <<>> >>

\* the runs of one transmitted frame, its closing sync gap included
FrameRuns(ms) ==
    IF ms = <<>> THEN << <<SPACE_US, 0>>, <<GAP_US, 0>> >>
    ELSE [i \in 1..(2 * Len(ms)) |->
             IF i % 2 = 1 THEN <<ms[(i + 1) \div 2], 1>>
             ELSE IF i = 2 * Len(ms) THEN <<GAP_US, 0>>
             ELSE <<SPACE_US, 0>>]

RECURSIVE SessionRuns(_)
SessionRuns(s) ==
    IF s = <<>> THEN <<>>
    ELSE FrameRuns(FrameMarks[Head(s)]) \o SessionRuns(Tail(s))

Sessions == UNION {[1..n -> 1..Len(FrameMarks)] : n \in 0..MaxFrames}

\* the tick stamps of the edges that open the runs of one frame sent at t
FrameTimes(t, runs) ==
    [i \in 1..Len(runs) |->
        (t + sum([k \in 1..(i - 1) |-> runs[k][1]])) % TICKS_PERIOD]

\* the tick stamps of the edges that bound the runs of a session
RECURSIVE EdgeTimes(_, _)
EdgeTimes(t, s) ==
    IF s = <<>> THEN <<t>>
    ELSE LET runs == FrameRuns(FrameMarks[Head(s)])
             end == (t + sum([k \in 1..Len(runs) |-> runs[k][1]])) % TICKS_PERIOD
         IN  FrameTimes(t, runs) \o EdgeTimes(end, Tail(s))

\* the level read at each edge: the level of the run it opens
EdgeLevels(runs) == [i \in 1..(Len(runs) + 1) |->
                        IF i <= Len(runs) THEN runs[i][2] ELSE 1]

-----------------------------------------------------------------------------
(* Main processing *)

NoCall == [fn |-> "none"]

\* capture stopped: capturing is False and no handler is set on the pin
CaptureStopped ==
    /\ capturing = FALSE
    /\ irq_armed = FALSE
    /\ irq_pending = FALSE
    /\ elapsed_ms = 0
    /\ interrupted = FALSE

\* if not marks
no_marks_unchecked(marks) == FALSE

\* if not marks
no_marks(marks) == marks = <<>>

\* Init: the program at line 199, capture stopped, about to call
\* process_and_print on what the capture window left in the buffer.
Init ==
    /\ \E s \in Sessions :
          LET runs == SessionRuns(s)
          IN  \/ /\ times = EdgeTimes(StartTick, s)
                 /\ levels = EdgeLevels(runs)
              \/ /\ runs = <<>>
                 /\ times = <<>>
                 /\ levels = <<>>
    /\ edge_idx = Len(times)
    /\ CaptureStopped
    /\ DEVICE_SIGNATURES = InitialSignatures
    /\ last_frame_bits_per_device = <<>>
    /\ pc = "process"
    /\ frames = <<>>
    /\ fi = 0
    /\ stdout = <<>>
    /\ runs_dump = None
    /\ obs = <<>>
    /\ arg = NoCall
    /\ ret = NoCall

\* process_and_print, lines 163-166
ProcessStart ==
    /\ pc = "process"
    /\ LET runs == get_runs
       IN  /\ frames' = split_frames(runs)
           /\ stdout' = stdout \o << <<"edges", edge_idx, Len(runs)>>,
                                     <<"frames", Len(split_frames(runs))>> >>
    /\ fi' = 0
    /\ pc' = "loop"
    /\ UNCHANGED <<captureVars, deviceVars, runs_dump, obs, callVars>>

\* process_and_print, one pass of the loop of lines 167-184.  An exception
\* raised in the pass is not caught anywhere: the program ends on it.
ProcessFrame ==
    /\ pc = "loop"
    /\ fi < Len(frames)
    /\ LET f == frames[fi + 1]
           marks == marks_from_runs(f)
           before == [fi |-> fi, marks |-> marks,
                      sigs_before |-> DEVICE_SIGNATURES,
                      last_before |-> last_frame_bits_per_device]
       IN  IF no_marks(marks)
           THEN /\ stdout' = Append(stdout, <<"no_marks", fi>>)
                /\ obs' = Append(obs, before @@
                             [kind |-> "no_marks", bits |-> None, device |-> "",
                              learned |-> FALSE])
                /\ fi' = fi + 1
                /\ UNCHANGED <<deviceVars, pc>>
           ELSE IF marks_to_bits_auto(marks) = ValueError
           THEN /\ stdout' = Append(stdout, <<"traceback", "ValueError">>)
                /\ obs' = Append(obs, before @@
                             [kind |-> "raised", bits |-> ValueError, device |-> "",
                              learned |-> FALSE])
                /\ pc' = "raised"
                /\ UNCHANGED <<deviceVars, fi>>
           ELSE LET bits == marks_to_bits_auto(marks)
                    r == identify_or_learn(DEVICE_SIGNATURES, bits)
                    device == r.name
                    last_bits == dict_get(last_frame_bits_per_device, device)
                    inverted == IF bits # [i \in 1..Len(marks) |->
                                               bit_of(marks[i], estimate_short_long(marks)[3])]
                                THEN << <<"inverted">> >> ELSE <<>>
                    learnt == IF r.learned THEN << <<"learned", device>> >> ELSE <<>>
                IN  /\ DEVICE_SIGNATURES' = r.signatures
                    /\ fi' = fi + 1
                    /\ pc' = pc
                    /\ IF is_repeat(bits, last_bits)
                       THEN /\ stdout' = stdout \o inverted \o learnt
                                           \o << <<"repeat", fi, device>> >>
                            /\ obs' = Append(obs, before @@
                                         [kind |-> "repeat", bits |-> bits,
                                          device |-> device, learned |-> r.learned])
                            /\ UNCHANGED last_frame_bits_per_device
                       ELSE /\ last_frame_bits_per_device' =
                                    dict_put(last_frame_bits_per_device, device, bits)
                            /\ stdout' = stdout \o inverted \o learnt
                                           \o << <<"frame", fi, device, bits,
                                                   bits_to_hexstr(bits)>> >>
                            /\ obs' = Append(obs, before @@
                                         [kind |-> "emitted", bits |-> bits,
                                          device |-> device, learned |-> r.learned])
    /\ UNCHANGED <<captureVars, frames, runs_dump, callVars>>

\* process_and_print returns once the loop has run out of frames
ProcessDone ==
    /\ pc = "loop"
    /\ fi = Len(frames)
    /\ pc' = "dump"
    /\ UNCHANGED <<captureVars, deviceVars, frames, fi, stdout, runs_dump, obs, callVars>>

\* lines 200-206: the runs are written to runs_dump.txt, or the write fails
DumpRuns ==
    /\ pc = "dump"
    /\ \/ /\ runs_dump' = get_runs
          /\ stdout' = Append(stdout, <<"saved">>)
       \/ /\ runs_dump' = runs_dump
          /\ stdout' = Append(stdout, <<"failed">>)
    /\ pc' = "done"
    /\ UNCHANGED <<captureVars, deviceVars, frames, fi, obs, callVars>>

Next == ProcessStart \/ ProcessFrame \/ ProcessDone \/ DumpRuns

Spec == Init /\ [][Next]_vars


-----------------------------------------------------------------------------
(* The utilities called on their own, on inputs drawn from small sets.     *)

MaxEdges == 3
MaxRuns == 4
MaxMarks == 4

\* tick stamps: early, half a period later, and just before the wrap
TickSamples == {0, 700, TICKS_PERIOD \div 2 + 100, TICKS_PERIOD - 300}

\* run durations around the sync gap threshold
DurationSamples == {SYNC_GAP_US - 1, SYNC_GAP_US, SYNC_GAP_US + 2000}

MarkSamples == {0, 300, 650, 1000, 1001}

WorkedMarks == <<300, 300, 1000, 300, 1000, 300, 1000, 1000>>

SeqsUpTo(S, n) == UNION {[1..k -> S] : k \in 0..n}

IdleProcess ==
    /\ frames = <<>>
    /\ fi = 0
    /\ stdout = <<>>
    /\ runs_dump = None
    /\ obs = <<>>

IdleDevices ==
    /\ DEVICE_SIGNATURES = InitialSignatures
    /\ last_frame_bits_per_device = <<>>

EmptyBuffer ==
    /\ times = <<>>
    /\ levels = <<>>
    /\ edge_idx = 0
    /\ CaptureStopped

\* get_runs on a buffer of up to MaxEdges written slots, of which the
\* first edge_idx belong to the current capture
InitRuns ==
    /\ \E n \in 0..MaxEdges :
          /\ times \in [1..n -> TickSamples]
          /\ levels \in [1..n -> {0, 1}]
          /\ edge_idx \in 0..n
    /\ CaptureStopped
    /\ IdleDevices
    /\ IdleProcess
    /\ pc = "call"
    /\ arg = [fn |-> "get_runs"]
    /\ ret = NoCall

CallGetRuns ==
    /\ pc = "call"
    /\ arg.fn = "get_runs"
    /\ ret' = [fn |-> "get_runs", value |-> get_runs]
    /\ pc' = "returned"
    /\ UNCHANGED <<captureVars, deviceVars, frames, fi, stdout, runs_dump, obs, arg>>

SpecRuns == InitRuns /\ [][CallGetRuns]_vars

InitSplit ==
    /\ EmptyBuffer
    /\ IdleDevices
    /\ IdleProcess
    /\ pc = "call"
    /\ \E runs \in SeqsUpTo(DurationSamples \X {0, 1}, MaxRuns) :
          arg = [fn |-> "split_frames", runs |-> runs]
    /\ ret = NoCall

CallSplitFrames ==
    /\ pc = "call"
    /\ arg.fn = "split_frames"
    /\ ret' = [fn |-> "split_frames", value |-> split_frames(arg.runs)]
    /\ pc' = "returned"
    /\ UNCHANGED <<captureVars, deviceVars, frames, fi, stdout, runs_dump, obs, arg>>

SpecSplit == InitSplit /\ [][CallSplitFrames]_vars

InitMarks ==
    /\ EmptyBuffer
    /\ IdleDevices
    /\ IdleProcess
    /\ pc = "call"
    /\ \E marks \in SeqsUpTo(MarkSamples, MaxMarks) \cup {WorkedMarks} :
       \E fn \in {"estimate_short_long", "marks_to_bits_auto"} :
          arg = [fn |-> fn, marks |-> marks]
    /\ ret = NoCall

CallEstimate ==
    /\ pc = "call"
    /\ arg.fn = "estimate_short_long"
    /\ ret' = [fn |-> arg.fn, value |-> estimate_short_long(arg.marks)]
    /\ pc' = "returned"
    /\ UNCHANGED <<captureVars, deviceVars, frames, fi, stdout, runs_dump, obs, arg>>

CallMarksToBits ==
    /\ pc = "call"
    /\ arg.fn = "marks_to_bits_auto"
    /\ ret' = [fn |-> arg.fn, value |-> marks_to_bits_auto(arg.marks)]
    /\ pc' = "returned"
    /\ UNCHANGED <<captureVars, deviceVars, frames, fi, stdout, runs_dump, obs, arg>>

NextMarks == CallEstimate \/ CallMarksToBits

SpecMarks == InitMarks /\ [][NextMarks]_vars

MaxBits == 9

\* bits_to_hexstr called on a bitstring
InitHex ==
    /\ EmptyBuffer
    /\ IdleDevices
    /\ IdleProcess
    /\ pc = "call"
    /\ \E bits \in SeqsUpTo({"0", "1"}, MaxBits) :
          arg = [fn |-> "bits_to_hexstr", bits |-> bits]
    /\ ret = NoCall

CallBitsToHex ==
    /\ pc = "call"
    /\ arg.fn = "bits_to_hexstr"
    /\ ret' = [fn |-> arg.fn, value |-> bits_to_hexstr(arg.bits)]
    /\ pc' = "returned"
    /\ UNCHANGED <<captureVars, deviceVars, frames, fi, stdout, runs_dump, obs, arg>>

SpecHex == InitHex /\ [][CallBitsToHex]_vars

\* the decoder called on its own and from the frame loop
InitPayloads == Init \/ InitMarks

NextPayloads == Next \/ NextMarks

SpecPayloads == InitPayloads /\ [][NextPayloads]_vars


-----------------------------------------------------------------------------
(* The program as __main__ runs it: start_capture, the polling loop, the   *)
(* two ways to stop_capture, then process_and_print and the dump, with the *)
(* edge interrupts of the data pin interleaved.  irq_armed says that       *)
(* irq_handler is set on the pin; irq_pending that an edge has been taken  *)
(* and the call of irq_handler for it is still to run.  The handler runs   *)
(* to its end between two statements of the main program.  elapsed_ms is   *)
(* ticks_diff(ticks_ms(), t0) as the main program last read it.            *)

\* the slots of the buffer in the model; SAMPLE_MAX_EDGES in the program
MaxCapture == 2
Capacity == IF MaxCapture < SAMPLE_MAX_EDGES THEN MaxCapture ELSE SAMPLE_MAX_EDGES

TIMEOUT_MS == 5000
POLL_MS == 100

\* what ticks_us() can read at an edge: a short or a long while after the
\* stamp before it
EdgeGaps == {SHORT_MARK, GAP_US}
StampsAfter(idx) ==
    LET last == IF idx = 0 THEN StartTick ELSE TimesAt(idx - 1)
    IN  {(last + d) % TICKS_PERIOD : d \in EdgeGaps}

\* times[idx] = value, levels[idx] = value
setitem(a, idx, value) ==
    [i \in 1..(IF idx + 1 > Len(a) THEN idx + 1 ELSE Len(a)) |->
        IF i = idx + 1 THEN value
        ELSE IF i <= Len(a) THEN a[i] ELSE 0]

\* if not capturing: return
not_capturing_ignored(flag) == FALSE

\* if not capturing: return
not_capturing(flag) == ~flag

\* if edge_idx>=SAMPLE_MAX_EDGES
buffer_full_late(idx) == idx > Capacity

\* if edge_idx>=SAMPLE_MAX_EDGES
buffer_full(idx) == idx >= Capacity

\* if time.ticks_diff(time.ticks_ms(),t0)>5000
timed_out_swapped(elapsed) == 0 - elapsed > TIMEOUT_MS

\* if time.ticks_diff(time.ticks_ms(),t0)>5000
timed_out(elapsed) == elapsed > TIMEOUT_MS

\* the statements of the try block of __main__, lines 191-196
TryBlock == {"start_reset", "start_flag", "start_irq", "t0", "while", "sleep",
             "check", "stop_flag", "stop_irq"}

\* process_and_print and what follows it, lines 199-206
AfterCapture == {"process", "loop", "dump", "done", "raised"}

InitCapture ==
    /\ EmptyBuffer
    /\ IdleDevices
    /\ IdleProcess
    /\ pc = "start_reset"
    /\ arg = NoCall
    /\ ret = NoCall

\* an edge on the data pin while irq_handler is set on it
PinEdge ==
    /\ irq_armed
    /\ ~irq_pending
    /\ irq_pending' = TRUE
    /\ UNCHANGED <<bufferVars, capturing, irq_armed, mainVars, deviceVars,
                   processVars, callVars>>

\* irq_handler, lines 58-67
irq_handler ==
    /\ irq_pending
    /\ irq_pending' = FALSE
    /\ IF not_capturing(capturing)
       THEN UNCHANGED <<bufferVars, capturing, irq_armed>>
       ELSE IF buffer_full(edge_idx)
       THEN /\ capturing' = FALSE
            /\ irq_armed' = FALSE
            /\ UNCHANGED bufferVars
       ELSE /\ \E stamp \in StampsAfter(edge_idx) :
                  times' = setitem(times, edge_idx, stamp)
            /\ \E value \in {0, 1} :
                  levels' = setitem(levels, edge_idx, value)
            /\ edge_idx' = edge_idx + 1
            /\ UNCHANGED <<capturing, irq_armed>>
    /\ UNCHANGED <<mainVars, deviceVars, processVars, callVars>>

\* start_capture, line 71
start_capture_reset ==
    /\ pc = "start_reset"
    /\ edge_idx' = 0
    /\ pc' = "start_flag"
    /\ UNCHANGED <<times, levels, irqVars, mainVars, deviceVars, frames, fi,
                   stdout, runs_dump, obs, callVars>>

\* start_capture, line 72
start_capture_flag ==
    /\ pc = "start_flag"
    /\ capturing' = TRUE
    /\ pc' = "start_irq"
    /\ UNCHANGED <<bufferVars, irq_armed, irq_pending, mainVars, deviceVars,
                   frames, fi, stdout, runs_dump, obs, callVars>>

\* start_capture, lines 73-75
start_capture_irq ==
    /\ pc = "start_irq"
    /\ irq_armed' = TRUE
    /\ stdout' = Append(stdout, <<"capture_started", SAMPLE_MAX_EDGES>>)
    /\ pc' = "t0"
    /\ UNCHANGED <<bufferVars, capturing, irq_pending, mainVars, deviceVars,
                   frames, fi, runs_dump, obs, callVars>>

\* t0=time.ticks_ms()
ReadT0 ==
    /\ pc = "t0"
    /\ elapsed_ms' = 0
    /\ pc' = "while"
    /\ UNCHANGED <<bufferVars, irqVars, interrupted, deviceVars, frames, fi,
                   stdout, runs_dump, obs, callVars>>

\* while capturing: the loop goes on, or the try block is left for
\* process_and_print
WhileCapturing ==
    /\ pc = "while"
    /\ pc' = IF capturing THEN "sleep" ELSE "process"
    /\ UNCHANGED <<captureVars, deviceVars, frames, fi, stdout, runs_dump, obs,
                   callVars>>

\* time.sleep_ms(100) and the reading of ticks_ms() after it; past the
\* timeout the reading is not followed further
SleepMs ==
    /\ pc = "sleep"
    /\ elapsed_ms' = IF elapsed_ms > TIMEOUT_MS THEN elapsed_ms
                     ELSE elapsed_ms + POLL_MS
    /\ pc' = "check"
    /\ UNCHANGED <<bufferVars, irqVars, interrupted, deviceVars, frames, fi,
                   stdout, runs_dump, obs, callVars>>

\* if time.ticks_diff(time.ticks_ms(),t0)>5000: stop_capture()
CheckTimeout ==
    /\ pc = "check"
    /\ pc' = IF timed_out(elapsed_ms) THEN "stop_flag" ELSE "while"
    /\ UNCHANGED <<captureVars, deviceVars, frames, fi, stdout, runs_dump, obs,
                   callVars>>

\* stop_capture, line 79, called at the pc from
stop_capture_flag(from, to) ==
    /\ pc = from
    /\ capturing' = FALSE
    /\ pc' = to
    /\ UNCHANGED <<bufferVars, irq_armed, irq_pending, mainVars, deviceVars,
                   frames, fi, stdout, runs_dump, obs, callVars>>

\* stop_capture, lines 80-81, called at the pc from
stop_capture_irq(from, to) ==
    /\ pc = from
    /\ irq_armed' = FALSE
    /\ stdout' = Append(stdout, <<"capture_stopped">>)
    /\ pc' = to
    /\ UNCHANGED <<bufferVars, capturing, irq_pending, mainVars, deviceVars,
                   frames, fi, runs_dump, obs, callVars>>

\* stop_capture() of line 196
StopOnTimeout ==
    \/ stop_capture_flag("stop_flag", "stop_irq")
    \/ stop_capture_irq("stop_irq", "while")

\* Ctrl-C while the main program is in the try block
KeyboardInterrupt ==
    /\ pc \in TryBlock
    /\ ~interrupted
    /\ interrupted' = TRUE
    /\ pc' = "except_flag"
    /\ UNCHANGED <<bufferVars, irqVars, elapsed_ms, deviceVars, frames, fi,
                   stdout, runs_dump, obs, callVars>>

\* except KeyboardInterrupt: stop_capture()
StopOnInterrupt ==
    \/ stop_capture_flag("except_flag", "except_irq")
    \/ stop_capture_irq("except_irq", "process")

\* the steps of the main program up to the call of process_and_print
MainLoop ==
    \/ start_capture_reset
    \/ start_capture_flag
    \/ start_capture_irq
    \/ ReadT0
    \/ WhileCapturing
    \/ SleepMs
    \/ CheckTimeout
    \/ StopOnTimeout
    \/ StopOnInterrupt
    \/ ProcessStart

NextCapture ==
    \/ MainLoop
    \/ ProcessFrame
    \/ ProcessDone
    \/ DumpRuns
    \/ PinEdge
    \/ irq_handler
    \/ KeyboardInterrupt

SpecCapture == InitCapture /\ [][NextCapture]_vars

\* the main program keeps being scheduled and its clock advances with it;
\* edges and Ctrl-C come or do not
SpecCaptureFair == SpecCapture /\ WF_vars(MainLoop)

-----------------------------------------------------------------------------
(* Properties of the frame loop.  obs[k] records the k-th pass of the loop: *)
(* the marks of the frame, the registry and the repeat map before the pass, *)
(* the bitstring decoded, the device returned and what the pass did.        *)

Decoded == {k \in DOMAIN obs : obs[k].kind # "no_marks"}

\* the registry and the repeat map as pass k left them
SigsAfter(k) == IF k < Len(obs) THEN obs[k + 1].sigs_before ELSE DEVICE_SIGNATURES
LastAfter(k) == IF k < Len(obs) THEN obs[k + 1].last_before
                ELSE last_frame_bits_per_device

\* sig occurs in bits from position p on
OccursAt(sig, bits, p) ==
    /\ p + Len(sig) - 1 <= Len(bits)
    /\ \A j \in 1..Len(sig) : bits[p + j - 1] = sig[j]

\* the positions in the registry whose signature occurs in bits
Matching(sigs, bits) ==
    {i \in DOMAIN sigs : \E p \in 1..(Len(bits) + 1) : OccursAt(sigs[i][2], bits, p)}

\* pass k printed the frame as a new one
Printed(k) ==
    \E j \in DOMAIN stdout :
        /\ stdout[j][1] = "frame"
        /\ stdout[j][2] = obs[k].fi
        /\ stdout[j][3] = obs[k].device
        /\ stdout[j][4] = obs[k].bits

UnknownNames == <<"Unknown_1", "Unknown_2", "Unknown_3", "Unknown_4", "Unknown_5",
                  "Unknown_6", "Unknown_7", "Unknown_8", "Unknown_9">>

\* C1: a frame with marks is skipped as a repeat exactly when its bitstring
\* equals the one stored for the device it was identified as; a skipped frame
\* leaves the repeat map as it was; any other frame is printed and its
\* bitstring becomes the stored one of that device, the rest of the map kept.
C1_RepeatFilter ==
    \A k \in Decoded :
        LET o == obs[k]
            stored == /\ o.device \in DOMAIN o.last_before
                      /\ o.last_before[o.device] = o.bits
        IN  /\ o.kind \in {"repeat", "emitted"}
            /\ (o.kind = "repeat") <=> stored
            /\ o.kind = "repeat" =>
                  /\ LastAfter(k) = o.last_before
                  /\ ~Printed(k)
            /\ o.kind = "emitted" =>
                  /\ Printed(k)
                  /\ DOMAIN LastAfter(k) = DOMAIN o.last_before \cup {o.device}
                  /\ LastAfter(k)[o.device] = o.bits
                  /\ \A d \in DOMAIN o.last_before \ {o.device} :
                        LastAfter(k)[d] = o.last_before[d]

\* C1 witness: payloads A, B, A of one device, the second A printed again
C1_Witness ==
    \E k1, k2, k3 \in Decoded :
        /\ k1 < k2 /\ k2 < k3
        /\ obs[k1].device = obs[k2].device /\ obs[k2].device = obs[k3].device
        /\ obs[k1].bits = obs[k3].bits
        /\ obs[k1].bits # obs[k2].bits
        /\ obs[k3].kind = "emitted"
        /\ Printed(k3)

C3_LearnUnknown ==
    /\ \A k \in Decoded :
          LET o == obs[k]
              n == Len(o.sigs_before)
              after == SigsAfter(k)
          IN  Matching(o.sigs_before, o.bits) = {} =>
                 /\ o.learned
                 /\ o.device = UnknownNames[n]
                 /\ Len(after) = n + 1
                 /\ SubSeq(after, 1, n) = o.sigs_before
                 /\ after[n + 1][1] = o.device
                 /\ Len(after[n + 1][2]) =
                        (IF Len(o.bits) < 20 THEN Len(o.bits) ELSE 20)
                 /\ \A j \in 1..Len(after[n + 1][2]) : after[n + 1][2][j] = o.bits[j]
    /\ \A i \in 2..Len(DEVICE_SIGNATURES) :
          DEVICE_SIGNATURES[i][1] = UnknownNames[i - 1]

\* C3 witness: the second unmatched call, on a payload longer than 20 symbols
C3_Witness ==
    \E k \in Decoded :
        /\ obs[k].learned
        /\ obs[k].device = "Unknown_2"
        /\ Len(obs[k].bits) > 20
        /\ Len(SigsAfter(k)) = 3

\* C4: every step inserts no entry or one entry at the end of the registry
\* and leaves each entry already present in its place with its name and its
\* signature.
C4_RegistryGrowsOnly ==
    [][ /\ Len(DEVICE_SIGNATURES') \in
              {Len(DEVICE_SIGNATURES), Len(DEVICE_SIGNATURES) + 1}
        /\ \A i \in DOMAIN DEVICE_SIGNATURES :
              DEVICE_SIGNATURES'[i] = DEVICE_SIGNATURES[i]
        /\ \A i, j \in DOMAIN DEVICE_SIGNATURES' :
              DEVICE_SIGNATURES'[i][1] = DEVICE_SIGNATURES'[j][1] => i = j ]_vars

\* C4 witness: two devices learned, then a call that matched and learned none
C4_Witness ==
    /\ Len(DEVICE_SIGNATURES) = 3
    /\ \E k \in Decoded : k = Len(obs) /\ ~obs[k].learned /\ Len(obs[k].sigs_before) = 3

\* C10: when a frame is learned as a new device (and so printed), the same
\* marks in the next frame are identified as that device, nothing more is
\* inserted in the registry and the frame is skipped as a repeat.
C10_LearnedThenRepeatSkipped ==
    \A k \in Decoded :
        (/\ k < Len(obs)
         /\ obs[k].learned
         /\ obs[k + 1].marks = obs[k].marks) =>
            /\ obs[k].kind = "emitted"
            /\ obs[k + 1].device = obs[k].device
            /\ ~obs[k + 1].learned
            /\ SigsAfter(k + 1) = SigsAfter(k)
            /\ obs[k + 1].kind = "repeat"
            /\ LastAfter(k + 1) = LastAfter(k)

\* C10 witness: the worked example learned as Unknown_1, its repeat skipped
C10_Witness ==
    \E k \in Decoded :
        /\ k < Len(obs)
        /\ obs[k].learned
        /\ obs[k].marks = WorkedMarks
        /\ obs[k].device = "Unknown_1"
        /\ obs[k + 1].marks = WorkedMarks
        /\ obs[k + 1].kind = "repeat"


-----------------------------------------------------------------------------
(* Properties of the utilities called on their own *)

Returned(fn) == pc = "returned" /\ ret.fn = fn

IsBoundary(run) == run[2] = 0 /\ run[1] >= 5000

RECURSIVE Flatten(_)
Flatten(ss) == IF ss = <<>> THEN <<>> ELSE Head(ss) \o Flatten(Tail(ss))

\* C5: split_frames returns no empty frame and no frame holding a low run
\* of 5000 us or more, and the frames put end to end are the input runs
\* without the boundary runs, in order; one boundary with content on both
\* sides gives exactly two frames.
C5_SplitFrames ==
    Returned("split_frames") =>
        LET runs == arg.runs
            frs == ret.value
            bounds == {i \in DOMAIN runs : IsBoundary(runs[i])}
        IN  /\ \A f \in DOMAIN frs : frs[f] # <<>>
            /\ \A f \in DOMAIN frs : \A i \in DOMAIN frs[f] : ~IsBoundary(frs[f][i])
            /\ Flatten(frs) = SelectSeq(runs, LAMBDA r : ~IsBoundary(r))
            /\ \A b \in bounds :
                  (bounds = {b} /\ 1 < b /\ b < Len(runs)) =>
                      /\ Len(frs) = 2
                      /\ frs[1] = SubSeq(runs, 1, b - 1)
                      /\ frs[2] = SubSeq(runs, b + 1, Len(runs))
            /\ bounds = DOMAIN runs => frs = <<>>

\* C5 witness: one boundary run between two runs of content, two frames
C5_Witness ==
    /\ Returned("split_frames")
    /\ Len(arg.runs) = 3
    /\ IsBoundary(arg.runs[2])
    /\ ~IsBoundary(arg.runs[1])
    /\ ~IsBoundary(arg.runs[3])
    /\ arg.runs[1][2] = 0
    /\ Len(ret.value) = 2

\* the symbols decoded from the marks before the polarity correction
RawOnes(marks, mid) == {i \in DOMAIN marks : marks[i] >= mid}

\* C6: marks_to_bits_auto returns one symbol per mark; with mid the third
\* estimate, the symbols are '1' exactly at the marks >= mid, unless those
\* are strictly more than half of the marks, and then exactly at the others.
C6_BitsAuto ==
    (Returned("marks_to_bits_auto") /\ arg.marks # <<>>) =>
        LET marks == arg.marks
            bits == ret.value
            mid == estimate_short_long(marks)[3]
            n1 == Cardinality(RawOnes(marks, mid))
            n0 == Len(marks) - n1
            inverted == \E i \in DOMAIN marks : (bits[i] = "1") # (marks[i] >= mid)
        IN  /\ Len(bits) = Len(marks)
            /\ \A i \in DOMAIN bits : bits[i] \in {"0", "1"}
            /\ inverted <=> (n1 > n0)
            /\ inverted => \A i \in DOMAIN marks : (bits[i] = "1") <=> (marks[i] < mid)
            /\ ~inverted => \A i \in DOMAIN marks : (bits[i] = "1") <=> (marks[i] >= mid)
            /\ inverted => /\ Cardinality({i \in DOMAIN bits : bits[i] = "1"}) = n0
                           /\ Cardinality({i \in DOMAIN bits : bits[i] = "0"}) = n1

\* C6 witness: three of four marks decode to '1' and the string is inverted
C6_Witness ==
    /\ Returned("marks_to_bits_auto")
    /\ arg.marks = <<1000, 300, 1000, 1001>>
    /\ ret.value = <<"0", "1", "0", "0">>

\* q is the floor of a / b, for b > 0
IsFloor(q, a, b) == q * b <= a /\ a < (q + 1) * b

Total(marks, idx) ==
    LET RECURSIVE upto(_)
        upto(i) == IF i = 0 THEN 0
                   ELSE upto(i - 1) + (IF i \in idx THEN marks[i] ELSE 0)
    IN  upto(Len(marks))

\* C7: for non-empty marks estimate_short_long returns (short, long, mid)
\* with mean the floor of the average, short the floor of the average of the
\* marks below mean (the least mark if there are none), long the floor of
\* the average of the marks at or above mean (the greatest mark if there are
\* none) and mid the floor of (short + long) / 2.
C7_Estimate ==
    (Returned("estimate_short_long") /\ arg.marks # <<>>) =>
        LET marks == arg.marks
            all == DOMAIN marks
            est == ret.value
            mean == CHOOSE q \in 0..Total(marks, all) :
                        IsFloor(q, Total(marks, all), Len(marks))
            below == {i \in all : marks[i] < mean}
            above == {i \in all : marks[i] >= mean}
        IN  /\ Len(est) = 3
            /\ IF below # {}
               THEN IsFloor(est[1], Total(marks, below), Cardinality(below))
               ELSE \A i \in all : est[1] <= marks[i]
            /\ IF above # {}
               THEN IsFloor(est[2], Total(marks, above), Cardinality(above))
               ELSE \A i \in all : est[2] >= marks[i]
            /\ below = {} => \E i \in all : est[1] = marks[i]
            /\ above = {} => \E i \in all : est[2] = marks[i]
            /\ IsFloor(est[3], est[1] + est[2], 2)
            /\ marks = WorkedMarks => est = <<300, 1000, 650>>

\* C7 witness: the worked example and its estimates
C7_Witness ==
    /\ Returned("estimate_short_long")
    /\ arg.marks = WorkedMarks
    /\ ret.value = <<300, 1000, 650>>

\* d is the wrap-safe difference b - a of two tick stamps: congruent to
\* b - a modulo the period, within half a period of 0, and the plain
\* distance from a forward to b when that is less than half a period
WrapSafe(d, b, a) ==
    /\ (d - (b - a)) % TICKS_PERIOD = 0
    /\ -(TICKS_PERIOD \div 2) <= d
    /\ d < TICKS_PERIOD \div 2
    /\ (b - a) % TICKS_PERIOD < TICKS_PERIOD \div 2 => d = (b - a) % TICKS_PERIOD

\* C8: get_runs returns no run when fewer than 2 edges were captured, and
\* otherwise edge_idx - 1 runs, run i with the wrap-safe difference of the
\* stamps of edges i+1 and i and with the level of edge i.
C8_GetRuns ==
    Returned("get_runs") =>
        LET runs == ret.value
        IN  IF edge_idx < 2 THEN runs = <<>>
            ELSE /\ Len(runs) = edge_idx - 1
                 /\ \A i \in 1..(edge_idx - 1) :
                       /\ WrapSafe(runs[i][1], times[i + 1], times[i])
                       /\ runs[i][2] = levels[i]

\* C8 witness: three edges, the counter wrapping between the first two
C8_Witness ==
    /\ Returned("get_runs")
    /\ edge_idx = 3
    /\ times[1] = TICKS_PERIOD - 300
    /\ times[2] = 0
    /\ levels[1] # levels[2]
    /\ ret.value[1] = <<300, levels[1]>>

\* C9: with 2 edges or more the durations of the runs add up to the stamp
\* of the last edge minus the stamp of the first, modulo the tick period.
C9_DurationsSum ==
    (Returned("get_runs") /\ edge_idx >= 2) =>
        LET runs == ret.value
            durs == [i \in DOMAIN runs |-> runs[i][1]]
        IN  Total(durs, DOMAIN durs) % TICKS_PERIOD =
                (times[edge_idx] - times[1]) % TICKS_PERIOD

\* C9 witness: the last edge stamped lower than the first, after a wrap
C9_Witness ==
    /\ Returned("get_runs")
    /\ edge_idx = 3
    /\ times[1] = TICKS_PERIOD - 300
    /\ times[2] = 0
    /\ times[3] = 700
    /\ ret.value[1][1] + ret.value[2][1] = 1000

\* the frame of pass k holds no run at the high level
NoHighRun(k) == \A j \in DOMAIN frames[obs[k].fi + 1] : frames[obs[k].fi + 1][j][2] # 1

\* C11: a frame without a high-level run is never decoded nor identified: its
\* pass only prints the "no marks" line, leaves the registry and the repeat
\* map as they were and raises nothing, and the loop goes on to the frames
\* after it, so that every frame has had its pass when the loop is left.
C11_NoMarksSkipped ==
    /\ \A k \in DOMAIN obs :
          /\ NoHighRun(k) <=> obs[k].kind = "no_marks"
          /\ obs[k].kind # "raised"
          /\ NoHighRun(k) =>
                /\ obs[k].bits = None
                /\ SigsAfter(k) = obs[k].sigs_before
                /\ LastAfter(k) = obs[k].last_before
                /\ \E j \in DOMAIN stdout : stdout[j] = <<"no_marks", obs[k].fi>>
                /\ \A j \in DOMAIN stdout :
                      stdout[j][1] \in {"frame", "repeat"} => stdout[j][2] # obs[k].fi
          /\ obs[k].fi = k - 1
    /\ pc # "raised"
    /\ pc \in {"dump", "done"} => Len(obs) = Len(frames)

\* C11 witness: a frame without marks skipped, the frame after it decoded
\* and printed
C11_Witness ==
    /\ Len(obs) >= 2
    /\ \E k \in 1..(Len(obs) - 1) :
          /\ NoHighRun(k)
          /\ Len(frames[obs[k].fi + 1]) > 0
          /\ obs[k].kind = "no_marks"
          /\ obs[k + 1].kind = "emitted"
          /\ Printed(k + 1)

-----------------------------------------------------------------------------
(* Properties of the capture as __main__ runs it *)

\* the calls of process_and_print made so far
Invocations == Cardinality({j \in DOMAIN stdout : stdout[j][1] = "edges"})

\* C12: process_and_print is entered only with capturing false, and from then
\* on no interrupt changes edge_idx, times or levels and start_capture is not
\* called again: the frames of the loop and the runs of the dump are those of
\* one and the same buffer, the one the "edges" line was printed for.
C12_FrozenSnapshot ==
    [][ /\ pc' \in AfterCapture =>
              /\ ~capturing'
              /\ \A j \in DOMAIN stdout' :
                    stdout'[j][1] = "edges" =>
                        /\ stdout'[j][2] = edge_idx'
                        /\ stdout'[j][3] = Len(get_runs')
        /\ pc' \in {"loop", "dump", "done"} => frames' = split_frames(get_runs')
        /\ runs_dump' # None => runs_dump' = get_runs'
        /\ pc \in AfterCapture =>
              /\ pc' \in AfterCapture
              /\ times' = times
              /\ levels' = levels
              /\ edge_idx' = edge_idx ]_vars

\* C12 witness: the dump written from a buffer of two edges or more while the
\* call of irq_handler for an edge taken before the handler was removed is
\* still outstanding
C12_Witness ==
    /\ pc = "done"
    /\ irq_pending
    /\ edge_idx >= 2
    /\ Len(obs) >= 1
    /\ runs_dump = get_runs

\* C17: edge_idx stays within 0..SAMPLE_MAX_EDGES (Capacity in the model);
\* the buffer is written only while capturing is true, only at index
\* edge_idx < SAMPLE_MAX_EDGES, one slot at a time with edge_idx going up by
\* one and the slots below it kept; edge_idx changes in no other way than
\* that and the reset of start_capture.
C17_BufferBounds ==
    [][ /\ edge_idx \in 0..Capacity
        /\ edge_idx' \in 0..Capacity
        /\ Len(times') <= Capacity
        /\ Len(levels') <= Capacity
        /\ (times' # times \/ levels' # levels) =>
              /\ capturing
              /\ edge_idx < Capacity
              /\ edge_idx' = edge_idx + 1
              /\ Len(times') = edge_idx' /\ Len(levels') = edge_idx'
              /\ \A i \in 1..edge_idx : times'[i] = times[i] /\ levels'[i] = levels[i]
        /\ edge_idx' # edge_idx =>
              \/ pc = "start_reset" /\ edge_idx' = 0
              \/ /\ edge_idx' = edge_idx + 1
                 /\ times' # times
                 /\ levels' # levels ]_vars

\* C17 witness: the buffer full, the edge after the last stored one taken by
\* irq_handler, which stopped the capture before the timeout and Ctrl-C
C17_Witness ==
    /\ edge_idx = Capacity
    /\ Len(times) = Capacity
    /\ ~capturing
    /\ ~irq_armed
    /\ ~interrupted
    /\ pc \in {"while", "sleep", "check"}
    /\ ~timed_out(elapsed_ms)

\* C18: once the main program is past the call of start_capture, capturing
\* becomes false and process_and_print is called; it is never called twice.
C18_CaptureEnds ==
    /\ (pc # "start_reset") ~> (~capturing /\ Invocations = 1)
    /\ [](Invocations <= 1)

\* C18 witness: no Ctrl-C, the buffer not full: the timeout stopped the
\* capture, the loop was left and process_and_print and the dump have run
C18_Witness ==
    /\ pc = "done"
    /\ ~interrupted
    /\ edge_idx < Capacity
    /\ timed_out(elapsed_ms)
    /\ ~capturing
    /\ Invocations = 1

-----------------------------------------------------------------------------
(* Properties of the utilities on inputs outside the frame loop's guard *)

\* C13: on an empty list of marks estimate_short_long returns the three
\* values 300, 1000 and 650, and marks_to_bits_auto returns the empty
\* bitstring without raising.
C13_EmptyMarksFallback ==
    /\ (Returned("estimate_short_long") /\ arg.marks = <<>>) =>
            ret.value = <<FALLBACK_SHORT_US, FALLBACK_LONG_US,
                          (FALLBACK_SHORT_US + FALLBACK_LONG_US) \div 2>>
    /\ (Returned("marks_to_bits_auto") /\ arg.marks = <<>>) =>
            /\ ret.value # ValueError
            /\ ret.value = <<>>

\* C13, what the code does: two values come back from the estimator, and
\* the decoder raises ValueError unpacking them into three names
C13_Witness ==
    /\ Returned("marks_to_bits_auto")
    /\ arg.marks = <<>>
    /\ ret.value = ValueError
    /\ estimate_short_long(arg.marks) = <<FALLBACK_SHORT_US, FALLBACK_LONG_US>>

\* stamps that need not be in order
UnsortedTicks == {0, SHORT_MARK, SHORT_MARK + LONG_MARK}

\* process_and_print and the dump called on a buffer whose stamps were not
\* written in time order
InitUnsorted ==
    /\ \E n \in 2..MaxEdges :
          /\ times \in [1..n -> UnsortedTicks]
          /\ levels \in [1..n -> {0, 1}]
          /\ edge_idx = n
    /\ CaptureStopped
    /\ IdleDevices
    /\ IdleProcess
    /\ pc = "process"
    /\ arg = NoCall
    /\ ret = NoCall

SpecUnsorted == InitUnsorted /\ [][Next]_vars

\* get_runs holds a run of negative duration
HasNegativeRun == \E i \in DOMAIN get_runs : get_runs[i][1] < 0

\* C14: when the runs hold a negative duration the pipeline fails: no frame
\* is printed, the registry and the repeat map stay as they were, and
\* process_and_print does not come to its normal end.
C14_NegativeFailsFast ==
    HasNegativeRun =>
        /\ \A j \in DOMAIN stdout : stdout[j][1] # "frame"
        /\ DEVICE_SIGNATURES = InitialSignatures
        /\ last_frame_bits_per_device = <<>>
        /\ pc \notin {"dump", "done"}

\* C14, what the code does: a mark of negative duration is decoded, the
\* frame is learned as a new device, stored and printed, and the run is
\* written to the dump
C14_Witness ==
    /\ HasNegativeRun
    /\ pc = "done"
    /\ Len(obs) = 1
    /\ \E i \in DOMAIN obs[1].marks : obs[1].marks[i] < 0
    /\ obs[1].kind = "emitted"
    /\ obs[1].learned
    /\ Printed(1)
    /\ Len(DEVICE_SIGNATURES) = Len(InitialSignatures) + 1
    /\ runs_dump = get_runs

-----------------------------------------------------------------------------
(* Properties of bits_to_hexstr *)

\* the bits an uppercase hex digit stands for, most significant first
NibbleOf ==
    [c \in {"0", "1", "2", "3", "4", "5", "6", "7",
            "8", "9", "A", "B", "C", "D", "E", "F"} |->
        CASE c = "0" -> <<"0", "0", "0", "0">> [] c = "1" -> <<"0", "0", "0", "1">>
          [] c = "2" -> <<"0", "0", "1", "0">> [] c = "3" -> <<"0", "0", "1", "1">>
          [] c = "4" -> <<"0", "1", "0", "0">> [] c = "5" -> <<"0", "1", "0", "1">>
          [] c = "6" -> <<"0", "1", "1", "0">> [] c = "7" -> <<"0", "1", "1", "1">>
          [] c = "8" -> <<"1", "0", "0", "0">> [] c = "9" -> <<"1", "0", "0", "1">>
          [] c = "A" -> <<"1", "0", "1", "0">> [] c = "B" -> <<"1", "0", "1", "1">>
          [] c = "C" -> <<"1", "1", "0", "0">> [] c = "D" -> <<"1", "1", "0", "1">>
          [] c = "E" -> <<"1", "1", "1", "0">> [] c = "F" -> <<"1", "1", "1", "1">>]

\* the bits a string of n hex bytes with spaces between them stands for
HexToBits(hex, n) ==
    [i \in 1..(8 * n) |->
        LET k == (i - 1) \div 8
            j == (i - 1) % 8
        IN  NibbleOf[hex[3 * k + 1 + (j \div 4)]][(j % 4) + 1]]

\* C15: for a bitstring of length L >= 1 the result is ceil(L/8) bytes of
\* two uppercase hex digits each with one space between bytes, and read
\* back most significant bit first it is the bitstring followed by "0"s up
\* to the next multiple of 8.
C15_HexString ==
    (Returned("bits_to_hexstr") /\ Len(arg.bits) >= 1) =>
        LET bits == arg.bits
            hex == ret.value
            n == (Len(bits) + 7) \div 8
        IN  /\ Len(hex) = 3 * n - 1
            /\ \A p \in 1..Len(hex) :
                  IF p % 3 = 0 THEN hex[p] = " " ELSE hex[p] \in DOMAIN NibbleOf
            /\ \A i \in 1..(8 * n) :
                  HexToBits(hex, n)[i] = IF i <= Len(bits) THEN bits[i] ELSE "0"

\* C15 witness: 9 bits, "00101011" and a "1", rendered as "2B 80"
C15_Witness ==
    /\ Returned("bits_to_hexstr")
    /\ arg.bits = <<"0", "0", "1", "0", "1", "0", "1", "1", "1">>
    /\ ret.value = <<"2", "B", " ", "8", "0">>

-----------------------------------------------------------------------------
(* Further properties of the frame loop *)

\* C16: a pass of the loop leaves the bitstring stored for every device other
\* than the one it identified as it was, so a frame with the device and the
\* bitstring of an earlier frame is skipped as a repeat when only frames of
\* other devices, or without marks, came in between.
C16_PerDeviceDedup ==
    /\ \A k \in DOMAIN obs :
          \A d \in DOMAIN obs[k].last_before :
              (obs[k].kind = "no_marks" \/ d # obs[k].device) =>
                  /\ d \in DOMAIN LastAfter(k)
                  /\ LastAfter(k)[d] = obs[k].last_before[d]
    /\ \A k \in Decoded : \A m \in Decoded :
          ( /\ k < m
            /\ obs[m].device = obs[k].device
            /\ obs[m].bits = obs[k].bits
            /\ \A j \in (k + 1)..(m - 1) :
                  obs[j].kind = "no_marks" \/ obs[j].device # obs[k].device )
          => obs[m].kind = "repeat"

\* C16 witness: a frame printed, a frame of another device printed after it,
\* then the first frame again, skipped
C16_Witness ==
    /\ Len(obs) = 3
    /\ obs[1].kind = "emitted"
    /\ obs[2].kind = "emitted"
    /\ obs[2].device # obs[1].device
    /\ obs[3].device = obs[1].device
    /\ obs[3].bits = obs[1].bits
    /\ obs[3].kind = "repeat"
    /\ last_frame_bits_per_device[obs[2].device] = obs[2].bits

\* a bitstring without a majority of "1"
NoMajorityOfOnes(bits) == count(bits, "1") <= count(bits, "0")

\* C19: every bitstring marks_to_bits_auto returns has no more "1" than "0",
\* and so has every bitstring the loop decoded, stored for a device or
\* printed.
C19_NoMajorityOfOnes ==
    /\ (Returned("marks_to_bits_auto") /\ ret.value # ValueError) =>
            NoMajorityOfOnes(ret.value)
    /\ \A k \in Decoded : NoMajorityOfOnes(obs[k].bits)
    /\ \A d \in DOMAIN last_frame_bits_per_device :
            NoMajorityOfOnes(last_frame_bits_per_device[d])
    /\ \A j \in DOMAIN stdout :
            stdout[j][1] = "frame" => NoMajorityOfOnes(stdout[j][4])

\* C19 witness: two long marks and a short one, "110" as sent, decoded,
\* stored and printed as "001"
C19_Witness ==
    \E k \in DOMAIN obs :
        /\ obs[k].marks = <<LONG_MARK, LONG_MARK, SHORT_MARK>>
        /\ obs[k].bits = <<"0", "0", "1">>
        /\ obs[k].kind = "emitted"
        /\ Printed(k)
        /\ LastAfter(k)[obs[k].device] = <<"0", "0", "1">>

====
